---------------------------- MODULE Spec2Model ----------------------------
(***************************************************************************)
(* A model of litellm's LoggingCallbackManager                             *)
(* (litellm/litellm_core_utils/logging_callback_manager.py): the seven     *)
(* module-level callback lists of `litellm` and the operations that        *)
(* register callbacks into them.                                           *)
(*                                                                         *)
(* Python values are records [cls, id]: `cls` is the value's concrete      *)
(* class and `id` its identity (for a str: its text).  isinstance, `==`    *)
(* and `in` are modelled by what Python does on such values.               *)
(***************************************************************************)
EXTENDS Integers, Sequences, FiniteSets, TLC

VARIABLES
    litellm,    \* the seven lists: litellm.<name> for each name of ListNames
    raised,     \* whether the last operation ended in an exception
    logged,     \* number of debug messages the last operation logged
    last,       \* the last operation called and its argument
    nops,       \* number of operations called so far
    threads     \* the concurrent callers: where each is in its call

vars == <<litellm, raised, logged, last, nops, threads>>

\* Number of operations one behaviour calls.
MaxOps == 3

----------------------------------------------------------------------------
(* Python values and the type tests the manager applies to them.           *)

\* The str callbacks.
Names == { [cls |-> "str", id |-> "x"] }

\* Plain functions: callables that have a __name__.
Functions == { [cls |-> "function", id |-> "f"], [cls |-> "function", id |-> "g"] }

\* Callables without a __name__ (a functools.partial object).
Partials == { [cls |-> "partial", id |-> "p"] }

\* CustomLogger instances: two of class Base, one of class Sub(Base).
Loggers == { [cls |-> "Base", id |-> "b1"], [cls |-> "Base", id |-> "b2"],
             [cls |-> "Sub", id |-> "s1"] }

\* A value that is no str, no callable and no CustomLogger.
Others == { [cls |-> "int", id |-> "42"] }

None == [cls |-> "NoneType", id |-> "None"]

Callbacks == Names \cup Functions \cup Partials \cup Loggers \cup Others

\* The classes a class inherits from, itself included.
Mro(cls) ==
    CASE cls = "Sub"          -> {"Sub", "Base", "CustomLogger", "object"}
      [] cls = "Base"         -> {"Base", "CustomLogger", "object"}
      [] cls = "CustomLogger" -> {"CustomLogger", "object"}
      [] OTHER                -> {cls, "object"}

\* isinstance(obj, cls)
IsInstance(obj, cls) == cls \in Mro(obj.cls)

\* isinstance(obj, Callable): the class defines __call__.
IsCallable(obj) == obj.cls \in {"function", "partial"}

\* hasattr(obj, "__name__")
HasName(obj) == obj.cls = "function"

\* a == b: str compares by value, every other class here by identity.
PyEq(a, b) == a.cls = b.cls /\ a.id = b.id

\* callback in parent_list
PyIn(callback, parent_list) ==
    \E i \in 1..Len(parent_list) : PyEq(parent_list[i], callback)

----------------------------------------------------------------------------
(* The private helpers.  Each returns the list it leaves, whether it       *)
(* raised, and how many debug messages it logged.                          *)

\* Faulty variant: appends without the membership test.
add_string_callback_to_list_noscan(callback, parent_list) ==
    [list |-> Append(parent_list, callback), raised |-> FALSE, logged |-> 0]

\* Faulty variant: inserts at the head of the list.
add_string_callback_to_list_front(callback, parent_list) ==
    IF ~PyIn(callback, parent_list)
    THEN [list |-> <<callback>> \o parent_list, raised |-> FALSE, logged |-> 0]
    ELSE [list |-> parent_list, raised |-> FALSE, logged |-> 1]

add_string_callback_to_list(callback, parent_list) ==
    IF ~PyIn(callback, parent_list)
    THEN [list |-> Append(parent_list, callback), raised |-> FALSE, logged |-> 0]
    ELSE [list |-> parent_list, raised |-> FALSE, logged |-> 1]

\* Faulty variant: appends without the membership test.
add_callback_function_to_list_noscan(callback, parent_list) ==
    [list |-> Append(parent_list, callback), raised |-> FALSE, logged |-> 0]

\* The duplicate branch formats callback.__name__ into the debug message:
\* an AttributeError when the callable has none, and then nothing is logged.
add_callback_function_to_list(callback, parent_list) ==
    IF ~PyIn(callback, parent_list)
    THEN [list |-> Append(parent_list, callback), raised |-> FALSE, logged |-> 0]
    ELSE IF HasName(callback)
    THEN [list |-> parent_list, raised |-> FALSE, logged |-> 1]
    ELSE [list |-> parent_list, raised |-> TRUE, logged |-> 0]

\* Faulty variant: deduplicates by instance (`in`) instead of by class.
add_custom_logger_to_list_by_instance(custom_logger, parent_list) ==
    IF PyIn(custom_logger, parent_list)
    THEN [list |-> parent_list, raised |-> FALSE, logged |-> 1]
    ELSE [list |-> Append(parent_list, custom_logger), raised |-> FALSE,
          logged |-> 0]

\* Faulty variant: skips only when an entry has exactly the logger's class.
add_custom_logger_to_list_same_class(custom_logger, parent_list) ==
    IF \E i \in 1..Len(parent_list) : parent_list[i].cls = custom_logger.cls
    THEN [list |-> parent_list, raised |-> FALSE, logged |-> 1]
    ELSE [list |-> Append(parent_list, custom_logger), raised |-> FALSE,
          logged |-> 0]

add_custom_logger_to_list(custom_logger, parent_list) ==
    LET logger_class == custom_logger.cls
    IN  IF \E i \in 1..Len(parent_list) :
              /\ IsInstance(parent_list[i], "CustomLogger")
              /\ IsInstance(parent_list[i], logger_class)
        THEN [list |-> parent_list, raised |-> FALSE, logged |-> 1]
        ELSE [list |-> Append(parent_list, custom_logger), raised |-> FALSE,
              logged |-> 0]

\* Faulty variant: a value of no recognised kind is appended.
safe_add_callback_to_list_keeps_unknown(callback, parent_list) ==
    IF IsInstance(callback, "str")
    THEN add_string_callback_to_list(callback, parent_list)
    ELSE IF IsCallable(callback)
    THEN add_callback_function_to_list(callback, parent_list)
    ELSE IF IsInstance(callback, "CustomLogger")
    THEN add_custom_logger_to_list(callback, parent_list)
    ELSE [list |-> Append(parent_list, callback), raised |-> FALSE,
          logged |-> 0]

safe_add_callback_to_list(callback, parent_list) ==
    IF IsInstance(callback, "str")
    THEN add_string_callback_to_list(callback, parent_list)
    ELSE IF IsCallable(callback)
    THEN add_callback_function_to_list(callback, parent_list)
    ELSE IF IsInstance(callback, "CustomLogger")
    THEN add_custom_logger_to_list(callback, parent_list)
    ELSE [list |-> parent_list, raised |-> FALSE, logged |-> 0]

----------------------------------------------------------------------------
(* The public operations, as functions of the registry.  A registry value  *)
(* is [lists, raised, logged]; a statement that follows a raising one is   *)
(* not executed.                                                           *)

ListNames == {"input_callback", "service_callback", "callbacks",
              "success_callback", "failure_callback",
              "_async_success_callback", "_async_failure_callback"}

Start(lists) == [lists |-> lists, raised |-> FALSE, logged |-> 0]

\* self._safe_add_callback_to_list(callback, parent_list=litellm.<name>)
SafeAdd(reg, callback, name) ==
    IF reg.raised THEN reg
    ELSE LET r == safe_add_callback_to_list(callback, reg.lists[name])
         IN  [lists |-> [reg.lists EXCEPT ![name] = r.list],
              raised |-> r.raised,
              logged |-> reg.logged + r.logged]

\* Faulty variant: registers into the service list as well.
add_input_callback_and_service(reg, callback) ==
    SafeAdd(SafeAdd(reg, callback, "input_callback"), callback,
            "service_callback")

add_input_callback(reg, callback) ==
    SafeAdd(reg, callback, "input_callback")

add_service_callback(reg, callback) ==
    SafeAdd(reg, callback, "service_callback")

add_callback(reg, callback) ==
    SafeAdd(reg, callback, "callbacks")

add_sync_success_callback(reg, callback) ==
    SafeAdd(reg, callback, "success_callback")

add_sync_failure_callback(reg, callback) ==
    SafeAdd(reg, callback, "failure_callback")

add_async_success_callback(reg, callback) ==
    SafeAdd(reg, callback, "_async_success_callback")

add_async_failure_callback(reg, callback) ==
    SafeAdd(reg, callback, "_async_failure_callback")

add_success_callback_sync_and_async(reg, callback) ==
    add_async_success_callback(add_sync_success_callback(reg, callback),
                               callback)

add_failure_callback_sync_and_async(reg, callback) ==
    add_async_failure_callback(add_sync_failure_callback(reg, callback),
                               callback)

\* Faulty variant: the isinstance(custom_logger, CustomLogger) test is missing.
add_custom_logger_to_all_callback_lists_untested(reg, custom_logger) ==
    IF custom_logger = None THEN reg
    ELSE LET r1 == add_sync_success_callback(reg, custom_logger)
             r2 == add_async_success_callback(r1, custom_logger)
             r3 == add_sync_failure_callback(r2, custom_logger)
             r4 == add_async_failure_callback(r3, custom_logger)
             r5 == add_input_callback(r4, custom_logger)
         IN  add_service_callback(r5, custom_logger)

add_custom_logger_to_all_callback_lists(reg, custom_logger) ==
    IF custom_logger = None THEN reg
    ELSE IF IsInstance(custom_logger, "CustomLogger")
    THEN LET r1 == add_sync_success_callback(reg, custom_logger)
             r2 == add_async_success_callback(r1, custom_logger)
             r3 == add_sync_failure_callback(r2, custom_logger)
             r4 == add_async_failure_callback(r3, custom_logger)
             r5 == add_input_callback(r4, custom_logger)
         IN  add_service_callback(r5, custom_logger)
    ELSE reg

\* Faulty variant: clears the service list too.
reset_all_callbacks_and_service(reg) ==
    [reg EXCEPT !.lists = [name \in ListNames |->
        IF name = "callbacks" THEN reg.lists[name] ELSE <<>>]]

\* Faulty variant: the assignment to litellm.input_callback is missing.
reset_all_callbacks_keeps_input(reg) ==
    [reg EXCEPT !.lists = [name \in ListNames |->
        IF name \in {"success_callback", "failure_callback",
                     "_async_success_callback", "_async_failure_callback"}
        THEN <<>> ELSE reg.lists[name]]]

reset_all_callbacks(reg) ==
    [reg EXCEPT !.lists = [name \in ListNames |->
        IF name \in {"input_callback", "success_callback", "failure_callback",
                     "_async_success_callback", "_async_failure_callback"}
        THEN <<>> ELSE reg.lists[name]]]

----------------------------------------------------------------------------
(* The state machine: one action per public operation, each call run to    *)
(* completion before the next starts.                                      *)

\* The concurrent callers of the interleaved specification.
NumCallers == 3

Threads == 1..NumCallers

Idle == [pc |-> "idle", callback |-> None, parent_list |-> "none"]

Init ==
    /\ litellm = [name \in ListNames |-> <<>>]
    /\ raised = FALSE
    /\ logged = 0
    /\ last = [op |-> "none", callback |-> None]
    /\ nops = 0
    /\ threads = [t \in Threads |-> Idle]

\* The call op(callback) returns (or raises), leaving `result`.
Return(op, callback, result) ==
    /\ litellm' = result.lists
    /\ raised' = result.raised
    /\ logged' = result.logged
    /\ last' = [op |-> op, callback |-> callback]
    /\ nops' = nops + 1
    /\ UNCHANGED threads

AddInputCallback(cb) ==
    /\ nops < MaxOps
    /\ Return("add_input_callback", cb,
              add_input_callback(Start(litellm), cb))

AddServiceCallback(cb) ==
    /\ nops < MaxOps
    /\ Return("add_service_callback", cb,
              add_service_callback(Start(litellm), cb))

AddCallback(cb) ==
    /\ nops < MaxOps
    /\ Return("add_callback", cb,
              add_callback(Start(litellm), cb))

AddSyncSuccessCallback(cb) ==
    /\ nops < MaxOps
    /\ Return("add_sync_success_callback", cb,
              add_sync_success_callback(Start(litellm), cb))

AddSyncFailureCallback(cb) ==
    /\ nops < MaxOps
    /\ Return("add_sync_failure_callback", cb,
              add_sync_failure_callback(Start(litellm), cb))

AddAsyncSuccessCallback(cb) ==
    /\ nops < MaxOps
    /\ Return("add_async_success_callback", cb,
              add_async_success_callback(Start(litellm), cb))

AddAsyncFailureCallback(cb) ==
    /\ nops < MaxOps
    /\ Return("add_async_failure_callback", cb,
              add_async_failure_callback(Start(litellm), cb))

AddSuccessCallbackSyncAndAsync(cb) ==
    /\ nops < MaxOps
    /\ Return("add_success_callback_sync_and_async", cb,
              add_success_callback_sync_and_async(Start(litellm), cb))

AddFailureCallbackSyncAndAsync(cb) ==
    /\ nops < MaxOps
    /\ Return("add_failure_callback_sync_and_async", cb,
              add_failure_callback_sync_and_async(Start(litellm), cb))

AddStatefulHandlerToAllChannels(h) ==
    /\ nops < MaxOps
    /\ Return("_add_custom_logger_to_all_callback_lists", h,
              add_custom_logger_to_all_callback_lists(Start(litellm), h))

Reset ==
    /\ nops < MaxOps
    /\ Return("_reset_all_callbacks", None,
              reset_all_callbacks(Start(litellm)))

Next ==
    \/ \E cb \in Callbacks : AddInputCallback(cb)
    \/ \E cb \in Callbacks : AddServiceCallback(cb)
    \/ \E cb \in Callbacks : AddCallback(cb)
    \/ \E cb \in Callbacks : AddSyncSuccessCallback(cb)
    \/ \E cb \in Callbacks : AddSyncFailureCallback(cb)
    \/ \E cb \in Callbacks : AddAsyncSuccessCallback(cb)
    \/ \E cb \in Callbacks : AddAsyncFailureCallback(cb)
    \/ \E cb \in Callbacks : AddSuccessCallbackSyncAndAsync(cb)
    \/ \E cb \in Callbacks : AddFailureCallbackSyncAndAsync(cb)
    \/ \E h \in Callbacks \cup {None} : AddStatefulHandlerToAllChannels(h)
    \/ Reset

Spec == Init /\ [][Next]_vars

----------------------------------------------------------------------------
(* Bulk registration: a caller registers the distinct names "1", "2", ...  *)
(* one after the other through one and the same add operation.            *)

MAX_CALLBACKS == 20

\* How many names beyond MAX_CALLBACKS the caller registers.
Overflow == 1

BulkOps == {"add_input_callback", "add_service_callback", "add_callback",
            "add_sync_success_callback", "add_sync_failure_callback",
            "add_async_success_callback", "add_async_failure_callback",
            "add_success_callback_sync_and_async",
            "add_failure_callback_sync_and_async"}

\* The result of the add operation named `op`.
Apply(op, reg, callback) ==
    CASE op = "add_input_callback" -> add_input_callback(reg, callback)
      [] op = "add_service_callback" -> add_service_callback(reg, callback)
      [] op = "add_callback" -> add_callback(reg, callback)
      [] op = "add_sync_success_callback" ->
            add_sync_success_callback(reg, callback)
      [] op = "add_sync_failure_callback" ->
            add_sync_failure_callback(reg, callback)
      [] op = "add_async_success_callback" ->
            add_async_success_callback(reg, callback)
      [] op = "add_async_failure_callback" ->
            add_async_failure_callback(reg, callback)
      [] op = "add_success_callback_sync_and_async" ->
            add_success_callback_sync_and_async(reg, callback)
      [] op = "add_failure_callback_sync_and_async" ->
            add_failure_callback_sync_and_async(reg, callback)

\* The i-th name.
NumberedName(i) == [cls |-> "str", id |-> ToString(i)]

RegisterNext(op) ==
    /\ nops < MAX_CALLBACKS + Overflow
    /\ last.op \in {"none", op}
    /\ Return(op, NumberedName(nops + 1),
              Apply(op, Start(litellm), NumberedName(nops + 1)))

NextCap == \E op \in BulkOps : RegisterNext(op)

SpecCap == Init /\ [][NextCap]_vars

----------------------------------------------------------------------------
(* A registry that only _add_custom_logger_to_all_callback_lists and       *)
(* _reset_all_callbacks ever change.                                       *)

\* Number of calls one such behaviour makes.
MaxBroadcastOps == 4

BroadcastCall(h) ==
    /\ nops < MaxBroadcastOps
    /\ Return("_add_custom_logger_to_all_callback_lists", h,
              add_custom_logger_to_all_callback_lists(Start(litellm), h))

ResetCall ==
    /\ nops < MaxBroadcastOps
    /\ Return("_reset_all_callbacks", None,
              reset_all_callbacks(Start(litellm)))

NextBroadcast ==
    \/ \E h \in Loggers \cup {None} : BroadcastCall(h)
    \/ ResetCall

SpecBroadcast == Init /\ [][NextBroadcast]_vars

----------------------------------------------------------------------------
(* Concurrent callers: each thread calls one add operation with the name   *)
(* "x".  Nothing synchronises _add_string_callback_to_list, so the         *)
(* membership test (line 99) and the append (line 100) of one thread are   *)
(* separate steps, and other threads run between them.                     *)

RaceLists == {"success_callback", "_async_success_callback"}

X == [cls |-> "str", id |-> "x"]

\* Thread t enters _add_string_callback_to_list(X, litellm.<name>).
ThreadCall(t, name) ==
    /\ threads[t].pc = "idle"
    /\ threads' = [threads EXCEPT ![t] =
                      [pc |-> "line99", callback |-> X, parent_list |-> name]]
    /\ UNCHANGED <<litellm, raised, logged, last, nops>>

\* if callback not in parent_list:
ThreadTest(t) ==
    /\ threads[t].pc = "line99"
    /\ threads' = [threads EXCEPT ![t].pc =
                      IF ~PyIn(threads[t].callback,
                               litellm[threads[t].parent_list])
                      THEN "line100" ELSE "done"]
    /\ UNCHANGED <<litellm, raised, logged, last, nops>>

\* parent_list.append(callback)
ThreadAppend(t) ==
    /\ threads[t].pc = "line100"
    /\ litellm' = [litellm EXCEPT ![threads[t].parent_list] =
                      Append(@, threads[t].callback)]
    /\ threads' = [threads EXCEPT ![t].pc = "done"]
    /\ UNCHANGED <<raised, logged, last, nops>>

NextRace ==
    \E t \in Threads :
        \/ \E name \in RaceLists : ThreadCall(t, name)
        \/ ThreadTest(t)
        \/ ThreadAppend(t)

SpecRace == Init /\ [][NextRace]_vars

----------------------------------------------------------------------------
(* add_success_callback_sync_and_async(callback) in one thread while       *)
(* _reset_all_callbacks() runs in another, on the empty registry. Each of  *)
(* the two adds (lines 82, 83) and each of the five assignments (lines     *)
(* 201-205) is one step.                                                   *)

\* The lists _reset_all_callbacks assigns to, in the order of lines 201-205.
ResetOrder ==
    << "input_callback", "success_callback", "failure_callback",
       "_async_success_callback", "_async_failure_callback" >>

Adding(t) == threads[t].pc \in {"line82", "line83", "added"}

Resetting(t) == threads[t].pc \in {"resetting", "reset"}

\* Thread t calls add_success_callback_sync_and_async(cb).
PairAddCall(t, cb) ==
    /\ threads[t].pc = "idle"
    /\ \A u \in Threads : ~Adding(u)
    /\ threads' = [threads EXCEPT ![t] =
                      [pc |-> "line82", callback |-> cb,
                       parent_list |-> "success_callback"]]
    /\ UNCHANGED <<litellm, raised, logged, last, nops>>

\* self.add_sync_success_callback(callback)
PairAddLine82(t) ==
    /\ threads[t].pc = "line82"
    /\ LET result == add_sync_success_callback(Start(litellm),
                                               threads[t].callback)
       IN  /\ litellm' = result.lists
           /\ raised' = result.raised
           /\ threads' = [threads EXCEPT ![t] =
                  IF result.raised
                  THEN [@ EXCEPT !.pc = "added"]
                  ELSE [@ EXCEPT !.pc = "line83",
                                 !.parent_list = "_async_success_callback"]]
    /\ UNCHANGED <<logged, last, nops>>

\* self.add_async_success_callback(callback)
PairAddLine83(t) ==
    /\ threads[t].pc = "line83"
    /\ LET result == add_async_success_callback(Start(litellm),
                                                threads[t].callback)
       IN  /\ litellm' = result.lists
           /\ raised' = result.raised
    /\ threads' = [threads EXCEPT ![t].pc = "added"]
    /\ UNCHANGED <<logged, last, nops>>

\* Thread t calls _reset_all_callbacks().
ResetEnter(t) ==
    /\ threads[t].pc = "idle"
    /\ \A u \in Threads : ~Resetting(u)
    /\ threads' = [threads EXCEPT ![t] =
                      [pc |-> "resetting", callback |-> None,
                       parent_list |-> ResetOrder[1]]]
    /\ UNCHANGED <<litellm, raised, logged, last, nops>>

\* litellm.<parent_list> = [], one of lines 201-205.
ResetAssign(t) ==
    /\ threads[t].pc = "resetting"
    /\ litellm' = [litellm EXCEPT ![threads[t].parent_list] = <<>>]
    /\ LET i == CHOOSE k \in 1..Len(ResetOrder) :
                    ResetOrder[k] = threads[t].parent_list
       IN  threads' = [threads EXCEPT ![t] =
                  IF i = Len(ResetOrder)
                  THEN [@ EXCEPT !.pc = "reset"]
                  ELSE [@ EXCEPT !.parent_list = ResetOrder[i + 1]]]
    /\ UNCHANGED <<raised, logged, last, nops>>

NextPairReset ==
    \E t \in Threads :
        \/ \E cb \in Callbacks : PairAddCall(t, cb)
        \/ PairAddLine82(t)
        \/ PairAddLine83(t)
        \/ ResetEnter(t)
        \/ ResetAssign(t)

SpecPairReset == Init /\ [][NextPairReset]_vars

----------------------------------------------------------------------------
(* Names shared by the properties below.                                   *)

SingleAdds == {"add_input_callback", "add_service_callback", "add_callback",
               "add_sync_success_callback", "add_sync_failure_callback",
               "add_async_success_callback", "add_async_failure_callback"}

PairAdds == {"add_success_callback_sync_and_async",
             "add_failure_callback_sync_and_async"}

AddOps == SingleAdds \cup PairAdds
             \cup {"_add_custom_logger_to_all_callback_lists"}

\* The list a single-list add registers into.
Target(op) ==
    CASE op = "add_input_callback"         -> "input_callback"
      [] op = "add_service_callback"       -> "service_callback"
      [] op = "add_callback"               -> "callbacks"
      [] op = "add_sync_success_callback"  -> "success_callback"
      [] op = "add_sync_failure_callback"  -> "failure_callback"
      [] op = "add_async_success_callback" -> "_async_success_callback"
      [] op = "add_async_failure_callback" -> "_async_failure_callback"

\* This step is a completed call of `op`.
Called(op) == last'.op = op /\ nops' = nops + 1

IsStr(e) == e.cls = "str"
IsFunction(e) == e.cls \in {"function", "partial"}
IsLogger(e) == e.cls \in {"Base", "Sub"}

----------------------------------------------------------------------------
(* Duplicates.                                                             *)

\* The positions of list `name`, in pairs i < j.
Pairs(name) ==
    { ij \in (1..Len(litellm[name])) \X (1..Len(litellm[name])) :
        ij[1] < ij[2] }

\* C1: after any sequence of registration operations, each run to
\* completion, no callback list holds two str entries with the same name
\* (so adding "x" twice to an empty list leaves a list of length 1).
C1_NoDuplicateNames ==
    \A name \in ListNames : \A ij \in Pairs(name) :
        LET a == litellm[name][ij[1]]
            b == litellm[name][ij[2]]
        IN  ~(IsStr(a) /\ IsStr(b) /\ a.id = b.id)

\* "x" was added to the empty input list, then added again and skipped.
C1_Witness ==
    /\ last = [op |-> "add_input_callback", callback |-> [cls |-> "str", id |-> "x"]]
    /\ nops = 2
    /\ logged = 1
    /\ litellm["input_callback"] = << [cls |-> "str", id |-> "x"] >>

\* C2: no callback list ever holds two CustomLogger entries of the same
\* concrete class, and adding a logger to a list that already holds one of
\* its concrete class leaves that list as it was (the first instance stays).
C2_NoTwoOfSameClass ==
    \A name \in ListNames : \A ij \in Pairs(name) :
        LET a == litellm[name][ij[1]]
            b == litellm[name][ij[2]]
        IN  ~(IsLogger(a) /\ IsLogger(b) /\ a.cls = b.cls)

C2_FirstInstanceStays ==
    \A name \in ListNames :
        (/\ last'.op \in AddOps
         /\ nops' = nops + 1
         /\ IsLogger(last'.callback)
         /\ \E i \in 1..Len(litellm[name]) :
               /\ IsLogger(litellm[name][i])
               /\ litellm[name][i].cls = last'.callback.cls)
        => litellm'[name] = litellm[name]

C2_OneLoggerPerClass ==
    []C2_NoTwoOfSameClass /\ [][C2_FirstInstanceStays]_vars

\* b1 was added to the input list, then b2 of the same class was skipped.
C2_Witness ==
    /\ last = [op |-> "add_input_callback", callback |-> [cls |-> "Base", id |-> "b2"]]
    /\ nops = 2
    /\ logged = 1
    /\ litellm["input_callback"] = << [cls |-> "Base", id |-> "b1"] >>

\* C3: no callback list ever holds the same function value twice: adding a
\* function that is already in the list adds nothing, while a function that
\* is not in it is appended.
C3_NoDuplicateFunctions ==
    \A name \in ListNames : \A ij \in Pairs(name) :
        LET a == litellm[name][ij[1]]
            b == litellm[name][ij[2]]
        IN  ~(IsFunction(a) /\ IsFunction(b) /\ a = b)

C3_SameSkippedDistinctAppended ==
    \A op \in SingleAdds :
        (Called(op) /\ IsFunction(last'.callback))
        => LET before == litellm[Target(op)]
           IN  litellm'[Target(op)] =
                  IF \E i \in 1..Len(before) : before[i] = last'.callback
                  THEN before
                  ELSE Append(before, last'.callback)

C3_FunctionsByReference ==
    []C3_NoDuplicateFunctions /\ [][C3_SameSkippedDistinctAppended]_vars

\* f and g were added to the service list (two entries), then f was added
\* again and skipped.
C3_Witness ==
    /\ last = [op |-> "add_service_callback",
               callback |-> [cls |-> "function", id |-> "f"]]
    /\ nops = 3
    /\ logged = 1
    /\ litellm["service_callback"] = << [cls |-> "function", id |-> "f"],
                                         [cls |-> "function", id |-> "g"] >>

----------------------------------------------------------------------------
(* Capacity and concurrent registration.                                   *)

\* C4: in every reachable state each of the seven callback lists has at
\* most MAX_CALLBACKS = 20 entries, whatever distinct callbacks are added.
C4_AtMostMaxCallbacks ==
    \A name \in ListNames : Len(litellm[name]) <= MAX_CALLBACKS

\* The number of entries of list `name` that are the name "x".
CountX(name) ==
    Cardinality({ i \in 1..Len(litellm[name]) : litellm[name][i] = X })

\* C5: when two or more concurrent callers each add the name "x" to the
\* same list, and all of them have returned, that list holds exactly one
\* "x" entry.
C5_ExactlyOneX ==
    \A name \in RaceLists :
        (/\ \A t \in Threads : threads[t].pc = "done"
         /\ Cardinality({ t \in Threads : threads[t].parent_list = name }) >= 2)
        => CountX(name) = 1

----------------------------------------------------------------------------
(* What each operation changes.                                            *)

\* The lists _add_custom_logger_to_all_callback_lists registers into.
BroadcastLists == ListNames \ {"callbacks"}

\* The lists _reset_all_callbacks empties.
ResetLists == ListNames \ {"service_callback", "callbacks"}

\* The number of entries of `list` whose concrete class is `cls`.
CountOfClass(list, cls) ==
    Cardinality({ i \in 1..Len(list) : list[i].cls = cls })

\* C6: the broadcast of a logger h, called when no list holds an entry of
\* h's concrete class, leaves exactly one entry of that class in each of the
\* six lists input, service, sync/async success and sync/async failure, and
\* leaves the generic list as it was.
C6_BroadcastStep ==
    \A h \in Loggers :
        (/\ Called("_add_custom_logger_to_all_callback_lists")
         /\ last'.callback = h
         /\ \A name \in ListNames : CountOfClass(litellm[name], h.cls) = 0)
        => /\ \A name \in BroadcastLists :
                 CountOfClass(litellm'[name], h.cls) = 1
           /\ litellm'["callbacks"] = litellm["callbacks"]

C6_BroadcastOneEntryInEachOfSix == [][C6_BroadcastStep]_vars

\* C7: reset empties the input, sync-success, sync-failure, async-success
\* and async-failure lists and leaves the service list and the generic list
\* exactly as they were.
C7_ResetStep ==
    Called("_reset_all_callbacks")
    => /\ \A name \in ResetLists : litellm'[name] = <<>>
       /\ litellm'["service_callback"] = litellm["service_callback"]
       /\ litellm'["callbacks"] = litellm["callbacks"]

C8_NeverRaises == raised = FALSE

\* C9: every add operation leaves each list either as it was or extended at
\* its end by the callback passed: no entry is removed or moved, so three
\* callbacks admitted in the order A, B, C make the list <<A, B, C>>.
C9_AddStep ==
    \A op \in AddOps :
        Called(op)
        => \A name \in ListNames :
               \/ litellm'[name] = litellm[name]
               \/ litellm'[name] = Append(litellm[name], last'.callback)

C9_AddsOnlyAppend == [][C9_AddStep]_vars

\* "x", f and b1 were added to the input list in that order.
C9_Witness ==
    /\ last = [op |-> "add_input_callback", callback |-> [cls |-> "Base", id |-> "b1"]]
    /\ nops = 3
    /\ logged = 0
    /\ litellm["input_callback"] = << [cls |-> "str", id |-> "x"],
                                       [cls |-> "function", id |-> "f"],
                                       [cls |-> "Base", id |-> "b1"] >>

\* Whether `list` holds an entry that is callback `cb` under the identity
\* rule of cb's kind: the name, the function value, the concrete class.
Present(cb, list) ==
    \E i \in 1..Len(list) :
        \/ IsStr(cb) /\ IsStr(list[i]) /\ list[i].id = cb.id
        \/ IsFunction(cb) /\ list[i] = cb
        \/ IsLogger(cb) /\ IsLogger(list[i]) /\ list[i].cls = cb.cls

\* C10: add_success_callback_sync_and_async(cb) leaves cb present in the
\* sync-success and the async-success list and changes no other list;
\* add_failure_callback_sync_and_async(cb) does the same for the two
\* failure lists.
C10_PairStep ==
    \A cb \in Names \cup Functions \cup Partials \cup Loggers :
        /\ (Called("add_success_callback_sync_and_async")
            /\ last'.callback = cb)
           => /\ Present(cb, litellm'["success_callback"])
              /\ Present(cb, litellm'["_async_success_callback"])
              /\ \A name \in ListNames \ {"success_callback",
                                          "_async_success_callback"} :
                     litellm'[name] = litellm[name]
        /\ (Called("add_failure_callback_sync_and_async")
            /\ last'.callback = cb)
           => /\ Present(cb, litellm'["failure_callback"])
              /\ Present(cb, litellm'["_async_failure_callback"])
              /\ \A name \in ListNames \ {"failure_callback",
                                          "_async_failure_callback"} :
                     litellm'[name] = litellm[name]

C10_PairAddsReachBothLists == [][C10_PairStep]_vars

----------------------------------------------------------------------------
(* Arguments that are not registered.                                      *)

\* C11: an add operation whose callback is no str, no callable and no
\* CustomLogger instance changes none of the seven lists and raises nothing.
C11_UnknownStep ==
    \A op \in SingleAdds \cup PairAdds :
        (Called(op) /\ last'.callback \in Others)
        => /\ litellm' = litellm
           /\ raised' = FALSE

C11_UnknownKindIsNoOp == [][C11_UnknownStep]_vars

\* 42 was passed to add_sync_success_callback with "x" and f registered.
C11_Witness ==
    /\ last = [op |-> "add_sync_success_callback",
               callback |-> [cls |-> "int", id |-> "42"]]
    /\ nops = 3
    /\ raised = FALSE
    /\ litellm["success_callback"] = << [cls |-> "str", id |-> "x"],
                                         [cls |-> "function", id |-> "f"] >>

\* C12: _add_custom_logger_to_all_callback_lists changes none of the seven
\* lists when its argument is None or is not a CustomLogger instance (a
\* name, a function).
C12_NotALoggerStep ==
    (/\ Called("_add_custom_logger_to_all_callback_lists")
     /\ ~IsLogger(last'.callback))
    => /\ litellm' = litellm
       /\ raised' = FALSE

C12_BroadcastOfNonLoggerIsNoOp == [][C12_NotALoggerStep]_vars

\* The name "x" was broadcast after b1 had been: the six lists still hold
\* b1 alone.
C12_Witness ==
    /\ last = [op |-> "_add_custom_logger_to_all_callback_lists",
               callback |-> [cls |-> "str", id |-> "x"]]
    /\ nops = 2
    /\ \A name \in BroadcastLists :
           litellm[name] = << [cls |-> "Base", id |-> "b1"] >>
    /\ litellm["callbacks"] = <<>>

----------------------------------------------------------------------------
(* Admission.                                                              *)

\* C13: a single-list add of a callback that is distinct, under the identity
\* rule of its kind (the name, the function value, the concrete class), from
\* every entry of the target list appends it: the target list grows by
\* exactly that one entry, at its end.
C13_DistinctStep ==
    \A op \in SingleAdds :
        (/\ Called(op)
         /\ last'.callback \in Names \cup Functions \cup Partials \cup Loggers
         /\ ~Present(last'.callback, litellm[Target(op)]))
        => litellm'[Target(op)] =
              Append(litellm[Target(op)], last'.callback)

C13_DistinctCallbackAppended == [][C13_DistinctStep]_vars

\* Class c is class d or a subclass of it (the classes of Loggers).
SameOrSubclass(c, d) == c = d \/ (c = "Sub" /\ d = "Base")

\* C14: adding a logger h to a list is skipped exactly when some logger
\* already in the list has h's concrete class or a subclass of it; otherwise
\* h is appended.  So Base then Sub leaves both, Sub then Base only the Sub.
C14_LoggerStep ==
    \A op \in SingleAdds :
        (Called(op) /\ IsLogger(last'.callback))
        => LET before == litellm[Target(op)]
               h == last'.callback
           IN  litellm'[Target(op)] =
                  IF \E i \in 1..Len(before) :
                        /\ IsLogger(before[i])
                        /\ SameOrSubclass(before[i].cls, h.cls)
                  THEN before
                  ELSE Append(before, h)

C15_SingleAddStep ==
    \A op \in SingleAdds :
        Called(op)
        => \A name \in ListNames \ {Target(op)} :
               litellm'[name] = litellm[name]

C15_SingleAddTouchesOneList == [][C15_SingleAddStep]_vars

\* f was admitted to the input list while the service list and the generic
\* list held entries.
C15_Witness ==
    /\ last = [op |-> "add_input_callback",
               callback |-> [cls |-> "function", id |-> "f"]]
    /\ nops = 3
    /\ logged = 0
    /\ litellm["input_callback"] = << [cls |-> "function", id |-> "f"] >>
    /\ litellm["service_callback"] = << [cls |-> "str", id |-> "x"] >>
    /\ litellm["callbacks"] = << [cls |-> "Base", id |-> "b1"] >>

----------------------------------------------------------------------------
(* Repeating an operation.                                                 *)

AllOps == AddOps \cup {"_reset_all_callbacks"}

\* The result of the operation named `op`.
Operation(op, reg, callback) ==
    CASE op \in BulkOps -> Apply(op, reg, callback)
      [] op = "_add_custom_logger_to_all_callback_lists" ->
            add_custom_logger_to_all_callback_lists(reg, callback)
      [] op = "_reset_all_callbacks" -> reset_all_callbacks(reg)

\* C16: every operation is idempotent on the lists: from any reachable
\* state, calling the same operation with the same argument twice in a row
\* leaves all seven lists as the first call left them.
C16_TwiceIsOnce ==
    \A op \in AllOps : \A cb \in Callbacks \cup {None} :
        LET once == Operation(op, Start(litellm), cb)
            twice == Operation(op, Start(once.lists), cb)
        IN  twice.lists = once.lists

\* A call that repeats the call before it changes no list.
C16_RepeatStep ==
    (nops' = nops + 1 /\ last.op # "none" /\ last' = last)
    => litellm' = litellm

C16_Idempotent == []C16_TwiceIsOnce /\ [][C16_RepeatStep]_vars

\* add_success_callback_sync_and_async(b1) was called twice on the empty
\* registry: the second call logged two skips.
C16_Witness ==
    /\ last = [op |-> "add_success_callback_sync_and_async",
               callback |-> [cls |-> "Base", id |-> "b1"]]
    /\ nops = 2
    /\ logged = 2
    /\ litellm = [name \in ListNames |->
                    IF name \in {"success_callback", "_async_success_callback"}
                    THEN << [cls |-> "Base", id |-> "b1"] >> ELSE <<>>]

----------------------------------------------------------------------------
(* Broadcast and reset alone.                                              *)

\* Every two lists of `names` that both hold a logger of one concrete class
\* hold the same instance of it.
SameInstances(names) ==
    \A n1 \in names : \A n2 \in names :
        \A i \in 1..Len(litellm[n1]) : \A j \in 1..Len(litellm[n2]) :
            (/\ IsLogger(litellm[n1][i])
             /\ IsLogger(litellm[n2][j])
             /\ litellm[n1][i].cls = litellm[n2][j].cls)
            => litellm[n1][i] = litellm[n2][j]

----------------------------------------------------------------------------
(* A pair add concurrent with a reset.                                     *)

\* The registry after add_success_callback_sync_and_async(cb) and then
\* _reset_all_callbacks(), and after the two in the other order, each call
\* run to completion, from the empty registry.
AddThenReset(cb) ==
    reset_all_callbacks(
        Start(add_success_callback_sync_and_async(
                  Start([name \in ListNames |-> <<>>]), cb).lists)).lists

ResetThenAdd(cb) ==
    add_success_callback_sync_and_async(
        Start(reset_all_callbacks(
                  Start([name \in ListNames |-> <<>>])).lists), cb).lists

\* C18: when add_success_callback_sync_and_async(cb) and
\* _reset_all_callbacks() ran concurrently on the empty registry and both
\* have returned, cb is in both litellm.success_callback and
\* litellm._async_success_callback or in neither: the registry is what one
\* of the two serial orders leaves.
C18_PairAddAllOrNothing ==
    \A t \in Threads : \A u \in Threads :
        (threads[t].pc = "added" /\ threads[u].pc = "reset")
        => /\ Present(threads[t].callback, litellm["success_callback"])
              <=> Present(threads[t].callback,
                          litellm["_async_success_callback"])
           /\ litellm \in { AddThenReset(threads[t].callback),
                            ResetThenAdd(threads[t].callback) }

=============================================================================
